---- MODULE Spec2Model ----
(***************************************************************************)
(* Statistical stability estimation (sigma-STAB / mu-STAB) as implemented  *)
(* by the two scripts test55.py and histogramm.py.                         *)
(*                                                                         *)
(* Numbers.  Measurements are integers; NaN is a sentinel outside every    *)
(* measurement range.  Quantiles, medians and sigma_equiv are rationals    *)
(* kept exactly as integers multiplied by Scale (Scale = 6 * QDen, so the  *)
(* interpolation weight q*(n-1) with q = QLo/QDen or QHi/QDen, the mean of *)
(* two middle elements, and the division by 6 are all exact).  A standard  *)
(* deviation is kept as its square (a fraction num/den); a stability index *)
(* is kept as the unevaluated quotient of its numerator and the reference  *)
(* sigma, or as one of the special floats nan / inf, or as the literal 0.  *)
(***************************************************************************)
EXTENDS Integers, Sequences, FiniteSets, TLC

\* ------------------------------------------------------------ bounds
PatLen == 2
MaxLen == 11
MaxSse == 2
MaxDev == 2
MaxSmallWindow == 3
MaxWindow == 16
MaxSeries == 22
MaxChars == 2
MaxRows == 26

\* ------------------------------------------------- program constants
NaN == 1000000000
QLo == 135
QHi == 99865
QMid == 50000
QDen == 100000
SigmaWidth == 6
MinFitLen == 10
MinSnapshotLen == 5
group_size == 5
step == 5
SnapshotMinGroups == 1
TrendMinGroups == 2
MinRows == 10
MinWindow == 20
WindowDivisor == 10
Cutoff == 0
Scale == SigmaWidth * QDen

COMMON_DISTRIBUTIONS ==
  <<"norm", "lognorm", "gamma", "beta", "weibull_min", "pareto", "t", "expon">>

Impls == {"test55", "histogramm"}

\* settings["time_intervals"], in months
time_intervals == <<3, 12, 36>>

\* ------------------------------------------------------ numpy helpers
isnan(x) == x = NaN

AbsVal(x) == IF isnan(x) THEN NaN ELSE IF x < 0 THEN -x ELSE x

\* np.abs(data): elementwise, NaN stays NaN
np_abs(data) == [k \in 1..Len(data) |-> AbsVal(data[k])]

\* data[~np.isnan(data)]: the non-NaN elements, order kept
RECURSIVE DropNaN(_)
DropNaN(data) ==
  IF data = <<>> THEN <<>>
  ELSE IF isnan(Head(data)) THEN DropNaN(Tail(data))
       ELSE <<Head(data)>> \o DropNaN(Tail(data))

\* k-th smallest element of a NaN-free sequence (what a sort puts at k)
OrderStat(a, k) ==
  CHOOSE v \in {a[j] : j \in 1..Len(a)} :
    /\ Cardinality({j \in 1..Len(a) : a[j] < v}) < k
    /\ Cardinality({j \in 1..Len(a) : a[j] <= v}) >= k

Sorted(a) == [k \in 1..Len(a) |-> OrderStat(a, k)]

\* linear interpolation between order statistics at virtual index q*(n-1),
\* q = qnum / QDen; the result is multiplied by Scale
Quantile(a, qnum) ==
  LET s  == Sorted(a)
      h  == qnum * (Len(a) - 1)
      lo == h \div QDen
      fr == h % QDen
  IN IF fr = 0 THEN s[lo + 1] * Scale
     ELSE s[lo + 1] * Scale + (Scale \div QDen) * fr * (s[lo + 2] - s[lo + 1])

np_nanquantile(data, qnum) ==
  LET d == DropNaN(data)
  IN IF Len(d) = 0 THEN NaN ELSE Quantile(d, qnum)

\* mean of the two middle elements (the middle one when the length is odd)
np_nanmedian(data) ==
  LET d == DropNaN(data)
      n == Len(d)
      s == Sorted(d)
  IN IF n = 0 THEN NaN
     ELSE IF n % 2 = 1 THEN s[(n + 1) \div 2] * Scale
     ELSE (s[n \div 2] + s[n \div 2 + 1]) * (Scale \div 2)

\* (usl - lsl) / 6.0 in floating point: NaN propagates
SigmaEquiv(lsl, usl) ==
  IF isnan(lsl) \/ isnan(usl) THEN NaN ELSE (usl - lsl) \div SigmaWidth

\* ------------------------------------------- the fitter library (external)
\* What one Fitter run did, per candidate family: fitted with a sum-of-squares
\* error, failed (exception inside the fit), or timed out.
Families == {COMMON_DISTRIBUTIONS[k] : k \in 1..Len(COMMON_DISTRIBUTIONS)}

FamilyIndex(name) == CHOOSE k \in 1..Len(COMMON_DISTRIBUTIONS) : COMMON_DISTRIBUTIONS[k] = name

Fitted(s) == [st |-> "fitted", sse |-> s]
FitFailed == [st |-> "failed", sse |-> 0]
FitTimeout == [st |-> "timeout", sse |-> 0]
Outcomes == {Fitted(s) : s \in 1..MaxSse} \cup {FitFailed, FitTimeout}

NotRun == [n \in Families |-> [st |-> "notrun", sse |-> 0]]
NoPick == "none"
NoFittableDistribution == "NoFittableDistribution"

\* f.fitted_param: only the families whose fit succeeded have an entry
FittedNames(env) == {n \in Families : env[n].st = "fitted"}

\* The parameters a successful fit of family `name` returns.  The optimiser is
\* external; it is deterministic for a fixed sample, and here it gives every
\* family parameters (loc, scale) of its own, scale > 0.
fitted_param(name) == <<FamilyIndex(name) - 2, 1 + (FamilyIndex(name) % 2)>>

\* f.get_best(method='sumsquare_error'): a fitted family of least error; any one
\* of them on a tie; NoFittableDistribution when no family was fitted.
get_best(env) ==
  IF FittedNames(env) = {} THEN {NoFittableDistribution}
  ELSE {n \in FittedNames(env) : \A m \in FittedNames(env) : env[n].sse <= env[m].sse}

\* scipy frozen distribution: dist.ppf(q), q = qnum / QDen, multiplied by Scale.
\* A location-scale quantile function, nondecreasing in q.
ppf(dist, qnum) ==
  LET z == IF qnum < QMid THEN -3 ELSE IF qnum = QMid THEN 0 ELSE 3
  IN (dist.params[1] + z * dist.params[2]) * Scale

\* ------------------------------------------------ get_robust_sigma_and_mu
Raised(e) == [exc |-> e]
IsExc(r) == "exc" \in DOMAIN r
NoDist == [name |-> "None", params |-> <<>>]

\* step 1 of both scripts: np.abs when asked; test55.py then drops the NaNs,
\* histogramm.py keeps them
Prepared(im, data, use_abs_values) ==
  LET d == IF use_abs_values THEN np_abs(data) ELSE data
  IN IF im = "test55" THEN DropNaN(d) ELSE d

\* the condition of the exact branch: test55.py asks for more than MinFitLen
\* values, histogramm.py only for the flag
InvokesFitter(im, data, fit_distribution, use_abs_values) ==
  IF im = "test55"
  THEN fit_distribution /\ Len(Prepared(im, data, use_abs_values)) > MinFitLen
  ELSE fit_distribution

\* the parameters of the first candidate instead of the winner's
BestParams_FirstCandidate(best_name) == fitted_param(COMMON_DISTRIBUTIONS[1])

\* best_params = f.fitted_param[best_name]
BestParams(best_name) == fitted_param(best_name)

\* lsl, usl, median = dist.ppf(0.00135), dist.ppf(0.99865), dist.ppf(0.5)
FitLimits(dist) == [lsl |-> ppf(dist, QLo), usl |-> ppf(dist, QHi), median |-> ppf(dist, QMid)]

\* the exact branch; `pick` is what get_best returned.  Nothing catches the
\* library's exception.
ExactBranch(d, pick) ==
  IF pick = NoFittableDistribution THEN Raised(NoFittableDistribution)
  ELSE LET dist == [name |-> pick, params |-> BestParams(pick)]
           lim  == FitLimits(dist)
       IN [sigma_equiv |-> SigmaEquiv(lim.lsl, lim.usl), median |-> lim.median,
           lsl |-> lim.lsl, usl |-> lim.usl,
           dist_obj |-> dist, dist_name |-> pick, data_used |-> d]

\* the result for an empty sample: test55.py returns sigma_equiv alone,
\* histogramm.py the four numbers and data_used
EmptyResult(im, d) ==
  IF im = "test55" THEN [sigma_equiv |-> NaN]
  ELSE [sigma_equiv |-> NaN, median |-> NaN, lsl |-> NaN, usl |-> NaN, data_used |-> d]

\* the two quantile levels exchanged
EmpiricalLimits_Swapped(d) == [lsl |-> np_nanquantile(d, QHi), usl |-> np_nanquantile(d, QLo)]

\* lsl, usl = np.nanquantile(data, 0.00135), np.nanquantile(data, 0.99865)
EmpiricalLimits(d) == [lsl |-> np_nanquantile(d, QLo), usl |-> np_nanquantile(d, QHi)]

EmpiricalBranch(im, d) ==
  IF Len(d) = 0 THEN EmptyResult(im, d)
  ELSE LET lim == EmpiricalLimits(d)
       IN [sigma_equiv |-> SigmaEquiv(lim.lsl, lim.usl), median |-> np_nanmedian(d),
           lsl |-> lim.lsl, usl |-> lim.usl,
           dist_obj |-> NoDist, dist_name |-> "empirical", data_used |-> d]

get_robust_sigma_and_mu(im, data, fit_distribution, use_abs_values, pick) ==
  LET d == Prepared(im, data, use_abs_values)
  IN IF InvokesFitter(im, data, fit_distribution, use_abs_values)
     THEN ExactBranch(d, pick)
     ELSE EmpiricalBranch(im, d)

\* What the Fitter run of one call can return: nothing is asked of it when the
\* exact branch is not taken; no family can be fitted to a sample without values.
Picks(im, data, fit_distribution, use_abs_values, env) ==
  IF ~InvokesFitter(im, data, fit_distribution, use_abs_values) THEN {NoPick}
  ELSE IF DropNaN(data) = <<>> THEN {NoFittableDistribution}
  ELSE get_best(env)

\* ------------------------------------------------------ stability indices
ZeroIdx == [kind |-> "zero"]
NanIdx == [kind |-> "nan"]
InfIdx == [kind |-> "inf"]
Quot(x, r) == [kind |-> "quot", num |-> x, den |-> r]

\* numpy float division x / r: NaN propagates, x / 0 is inf (nan for 0 / 0) with
\* a warning and no exception
FloatDiv(xnan, xzero, x, r) ==
  IF xnan \/ isnan(r) THEN NanIdx
  ELSE IF r = 0 THEN (IF xzero THEN NanIdx ELSE InfIdx)
  ELSE Quot(x, r)

\* Python truth value of the reference: 0 is false, NaN and the rest are true
Truthy(r) == r # 0

\* the division without the guard on the reference
StabRatio_Unguarded(im, xnan, xzero, x, r) == FloatDiv(xnan, xzero, x, r)

\* test55.py: x / hist_sigma_ref if hist_sigma_ref else 0
\* histogramm.py: x / hist_sigma_ref
StabRatio(im, xnan, xzero, x, r) ==
  IF im = "test55" /\ ~Truthy(r) THEN ZeroIdx ELSE FloatDiv(xnan, xzero, x, r)

SigmaStab(im, sigma_equiv, r) ==
  StabRatio(im, isnan(sigma_equiv), sigma_equiv = 0, sigma_equiv, r)

\* rows that overlap by one element
Groups_Overlapping(plot_data, n) ==
  [j \in 1..n |-> [c \in 1..group_size |-> plot_data[(j - 1) * (group_size - 1) + c]]]

\* plot_data[:n*group_size].reshape(-1, group_size): row j holds the elements at
\* (0-based) positions j*group_size .. j*group_size + group_size - 1
Groups(plot_data, n) ==
  [j \in 1..n |-> [c \in 1..group_size |-> plot_data[(j - 1) * group_size + c]]]

\* np.median of one row: NaN if the row holds a NaN, else the middle element
\* (group_size is odd)
RowMedian(row) ==
  IF \E c \in 1..Len(row) : isnan(row[c]) THEN NaN
  ELSE OrderStat(row, (Len(row) + 1) \div 2)

Medians(grps) == [j \in 1..Len(grps) |-> RowMedian(grps[j])]

RECURSIVE SumSeq(_)
SumSeq(a) == IF a = <<>> THEN 0 ELSE Head(a) + SumSeq(Tail(a))

Squares(a) == [j \in 1..Len(a) |-> a[j] * a[j]]

\* ddof=0: the population standard deviation
StdDivisor_Population(k) == k

\* the divisor of np.std(..., ddof=1) for k values
StdDivisor(k) == k - 1

\* np.std(meds, ddof=1), kept as its square num/den:
\* sum((m - mean)^2) / (k - 1) = (k*sum(m^2) - sum(m)^2) / (k*(k - 1))
StdDdof1(meds) ==
  LET k == Len(meds)
  IN IF \E j \in 1..k : isnan(meds[j]) THEN [isnan |-> TRUE, num |-> 0, den |-> 1]
     ELSE [isnan |-> FALSE,
           num |-> k * SumSeq(Squares(meds)) - SumSeq(meds) * SumSeq(meds),
           den |-> k * StdDivisor(k)]

NumGroups(plot_data) == Len(plot_data) \div group_size

\* the mu-STAB block of the snapshot (threshold 1) and of the trend (threshold 2)
MuStab(im, plot_data, r, threshold) ==
  IF NumGroups(plot_data) > threshold
  THEN LET sigma_mu == StdDdof1(Medians(Groups(plot_data, NumGroups(plot_data))))
       IN StabRatio(im, sigma_mu.isnan, sigma_mu.num = 0, sigma_mu, r)
  ELSE ZeroIdx

\* grps as the code builds it; no grps when the branch is not taken
GroupsTaken(plot_data, threshold) ==
  IF NumGroups(plot_data) > threshold THEN Groups(plot_data, NumGroups(plot_data)) ELSE <<>>

\* ------------------------------------------------------------ the trend
\* df.sort_values('date'): rows in ascending date order.  The sort is not
\* stable, so rows of equal date may come out in either order; SortOutcomes is
\* every outcome for a frame with at most one pair of equal dates.
Rank(rows, j) ==
  Cardinality({k \in 1..Len(rows) : rows[k].date < rows[j].date})
  + Cardinality({k \in 1..j : rows[k].date = rows[j].date})

StableSort(rows) ==
  [p \in 1..Len(rows) |-> rows[CHOOSE j \in 1..Len(rows) : Rank(rows, j) = p]]

SwapAt(rows, p) ==
  [k \in 1..Len(rows) |-> IF k = p THEN rows[p + 1] ELSE IF k = p + 1 THEN rows[p] ELSE rows[k]]

SortOutcomes(rows) ==
  LET st == StableSort(rows)
  IN {st} \cup {SwapAt(st, p) : p \in {q \in 1..(Len(rows) - 1) : st[q].date = st[q + 1].date}}

\* an expanding window: vals.iloc[: i]
WindowPositions_Expanding(i0, w) == 0..(i0 - 1)

\* a window that ends on the current row: vals.iloc[i - window_size + 1 : i + 1]
WindowPositions_Inclusive(i0, w) == (i0 - w + 1)..i0

\* the (0-based) positions of the slice vals.iloc[i - window_size : i]
WindowPositions(i0, w) == (i0 - w)..(i0 - 1)

\* .values of the slice, in position order; position p (0-based) is v[p + 1]
WindowData(v, i0, w) ==
  LET ps == WindowPositions(i0, w)
      lo == CHOOSE p \in ps : \A q \in ps : p <= q
  IN [k \in 1..Cardinality(ps) |-> v[lo + k].value]

\* vals.index[i]
CurrentDate(v, i0) == v[i0 + 1].date

\* ------------------------------------------------------------- inputs
Values == {-2, 0, 1}
Symbols == Values \cup {NaN}

CyclicSample(pat, n) == [k \in 1..n |-> pat[((k - 1) % Len(pat)) + 1]]

Samples == {CyclicSample(pat, n) : pat \in [1..PatLen -> Symbols], n \in 0..MaxLen}

\* a long pattern with a single missing value
LongPattern == <<1, -2, 0, NaN, 1, 1, -2, 0, 0, 1, -2, 1, 0, -2, 1, 1, 0>>

\* samples long enough for the exact branch of both scripts
FitSamples == {CyclicSample(<<1, -2>>, MaxLen), CyclicSample(<<0, NaN, 1>>, MaxLen)}

\* fitter runs in which all families but at most `dev` share one outcome
Envs(dev) ==
  UNION {{[n \in Families |-> IF n \in D THEN f[n] ELSE b] : f \in [D -> Outcomes]} :
           b \in Outcomes, D \in {S \in SUBSET Families : Cardinality(S) <= dev}}

UniformEnvs == Envs(0)
DeviatingEnvs == Envs(MaxDev)

\* -------------------------------------------------------------- state
VARIABLES
  impl,             \* which script runs: "test55" or "histogramm"
  op,               \* the entry point called: "estimate", "snapshot" or "trend"
  pc,               \* "start", "loop", "done", "skipped" or "raised"
  data,             \* the sample passed in (estimate), df's value column (snapshot)
  fit_distribution, \* argument of get_robust_sigma_and_mu
  use_abs,          \* argument use_abs_values / use_abs
  env,              \* what the Fitter run does, per family
  res,              \* the dict get_robust_sigma_and_mu returned, or the exception
  fitter_calls,     \* number of Fitter objects built so far
  hist_sigma_ref,   \* the reference sigma passed in (multiplied by Scale)
  window_size,      \* argument of plot_timeline_analysis
  df,               \* the frame passed to plot_timeline_analysis: rows (date, value)
  vals,             \* df sorted by date
  i,                \* loop variable of the trend
  log,              \* one record per loop iteration begun
  dates,            \* the three lists of the trend
  sigma_stab_list,
  mu_stab_list,
  snap,             \* what the snapshot computed
  table,            \* spc_analysis: the table read, rows (date, value, characteristic_id)
  cfg,              \* the keys of master_cfg["inspection_characteristics"], in order
  char_idx,         \* position of the outer loop in cfg
  reduced_table,    \* the rows of the current characteristic
  last_date,        \* reduced_table['date'].max()
  global_sigma_ref, \* the reference sigma of spc_analysis
  months_idx,       \* position of the inner loop in time_intervals
  trace             \* the estimator and plot calls spc_analysis made, in order

corevars == <<impl, op, pc, data, fit_distribution, use_abs, env, res, fitter_calls,
              hist_sigma_ref, window_size, df, vals, i, log, dates, sigma_stab_list,
              mu_stab_list, snap>>

\* what spc_analysis leaves alone: all of the above but pc
calleevars == <<impl, op, data, fit_distribution, use_abs, env, res, fitter_calls,
                hist_sigma_ref, window_size, df, vals, i, log, dates, sigma_stab_list,
                mu_stab_list, snap>>

spcvars == <<table, cfg, char_idx, reduced_table, last_date, global_sigma_ref,
             months_idx, trace>>

vars == <<corevars, spcvars>>

NoRes == [none |-> TRUE]
NoSnap == [none |-> TRUE]

RefValues == {0, NaN, Scale \div 2}

TrendIdle ==
  /\ window_size = 0 /\ df = <<>> /\ vals = <<>> /\ i = 0 /\ log = <<>>
  /\ dates = <<>> /\ sigma_stab_list = <<>> /\ mu_stab_list = <<>>

\* NaT, and a local variable not yet bound: two numbers no date and no sigma is
NoDate == -NaN
Unbound == -NaN - 1

\* spc_analysis is not running
SpcIdle ==
  /\ table = <<>> /\ cfg = <<>> /\ char_idx = 0 /\ reduced_table = <<>>
  /\ last_date = NoDate /\ global_sigma_ref = Unbound /\ months_idx = 0 /\ trace = <<>>

\* a direct call of get_robust_sigma_and_mu
InitEstimate ==
  /\ op = "estimate"
  /\ pc = "start"
  /\ impl \in Impls
  /\ use_abs \in BOOLEAN
  /\ \/ data \in Samples /\ fit_distribution \in BOOLEAN /\ env \in UniformEnvs
     \/ data \in FitSamples /\ fit_distribution = TRUE /\ env \in DeviatingEnvs
  /\ res = NoRes
  /\ fitter_calls = 0
  /\ hist_sigma_ref = 0
  /\ snap = NoSnap
  /\ TrendIdle
  /\ SpcIdle

CallEstimate ==
  /\ op = "estimate"
  /\ pc = "start"
  /\ \E pick \in Picks(impl, data, fit_distribution, use_abs, env) :
       res' = get_robust_sigma_and_mu(impl, data, fit_distribution, use_abs, pick)
  /\ fitter_calls' =
       IF InvokesFitter(impl, data, fit_distribution, use_abs) THEN fitter_calls + 1
       ELSE fitter_calls
  /\ pc' = IF IsExc(res') THEN "raised" ELSE "done"
  /\ UNCHANGED <<impl, op, data, fit_distribution, use_abs, env, hist_sigma_ref,
                 window_size, df, vals, i, log, dates, sigma_stab_list, mu_stab_list, snap>>
  /\ UNCHANGED spcvars

NextEstimate == CallEstimate

SpecEstimate == InitEstimate /\ [][NextEstimate]_vars

\* plot_histogramm (test55.py) / plot_snapshot_analysis (histogramm.py), up to
\* the two indices; the drawing that follows is not modelled
InitSnapshot ==
  /\ op = "snapshot"
  /\ pc = "start"
  /\ impl \in Impls
  /\ use_abs \in BOOLEAN
  /\ data \in Samples \cup {CyclicSample(LongPattern, n) : n \in 0..MaxLen}
  /\ fit_distribution = TRUE
  /\ env \in UniformEnvs
  /\ hist_sigma_ref \in RefValues
  /\ res = NoRes
  /\ fitter_calls = 0
  /\ snap = NoSnap
  /\ TrendIdle
  /\ SpcIdle

\* the indices computed from an estimate r
SnapshotIndices(im, r, ref) ==
  [plot_data |-> r.data_used,
   sigma_stab |-> SigmaStab(im, r.sigma_equiv, ref),
   num_groups |-> NumGroups(r.data_used),
   grps |-> GroupsTaken(r.data_used, SnapshotMinGroups),
   mu_stab |-> MuStab(im, r.data_used, ref, SnapshotMinGroups)]

PlotSnapshot ==
  /\ op = "snapshot"
  /\ pc = "start"
  /\ LET raw_data == DropNaN(data)
     IN IF impl = "test55" /\ Len(raw_data) < MinSnapshotLen
        THEN pc' = "skipped" /\ UNCHANGED <<res, fitter_calls, snap>>
        ELSE /\ \E pick \in Picks(impl, raw_data, TRUE, use_abs, env) :
                  res' = get_robust_sigma_and_mu(impl, raw_data, TRUE, use_abs, pick)
             /\ fitter_calls' =
                  IF InvokesFitter(impl, raw_data, TRUE, use_abs) THEN fitter_calls + 1
                  ELSE fitter_calls
             /\ IF IsExc(res') THEN pc' = "raised" /\ snap' = snap
                ELSE IF "data_used" \notin DOMAIN res'
                THEN pc' = "raised" /\ snap' = Raised("KeyError")
                ELSE pc' = "done" /\ snap' = SnapshotIndices(impl, res', hist_sigma_ref)
  /\ UNCHANGED <<impl, op, data, fit_distribution, use_abs, env, hist_sigma_ref,
                 window_size, df, vals, i, log, dates, sigma_stab_list, mu_stab_list>>
  /\ UNCHANGED spcvars

\* plot_timeline_analysis, up to the three lists
Row(d, v) == [date |-> d, value |-> v]

\* how the dates of the frame lie: ascending, descending, or ascending with the
\* first two rows on the same date
Layouts == {"asc", "desc", "tie"}

DateAt(layout, n, k) ==
  IF layout = "desc" THEN n + 1 - k
  ELSE IF layout = "tie" /\ k = 1 THEN 2
  ELSE k

Frame(layout, pat, n) == [k \in 1..n |-> Row(DateAt(layout, n, k), CyclicSample(pat, n)[k])]

\* short series with small windows and every pattern; long series with windows
\* of two and three subgroups
TrendPatterns == {<<1, -2>>, <<0, 1, -2>>, LongPattern}

TrendFrames ==
  {[df |-> Frame(l, pat, n), w |-> w] :
     l \in Layouts, pat \in [1..PatLen -> Symbols], n \in 0..MaxLen, w \in 1..MaxSmallWindow}
  \cup
  {[df |-> Frame(l, pat, n), w |-> w] :
     l \in Layouts, pat \in TrendPatterns, n \in 0..MaxSeries,
     w \in (MaxWindow - group_size - 1)..MaxWindow}

InitTrend ==
  /\ op = "trend"
  /\ pc = "start"
  /\ impl \in Impls
  /\ use_abs \in BOOLEAN
  /\ hist_sigma_ref \in RefValues
  /\ \E f \in TrendFrames : df = f.df /\ window_size = f.w
  /\ data = <<>> /\ fit_distribution = FALSE /\ env = NotRun
  /\ res = NoRes /\ fitter_calls = 0 /\ snap = NoSnap
  /\ vals = <<>> /\ i = 0 /\ log = <<>>
  /\ dates = <<>> /\ sigma_stab_list = <<>> /\ mu_stab_list = <<>>
  /\ SpcIdle

\* df.sort_values('date').set_index('date'); the empty lists; the first i
TrendStart ==
  /\ op = "trend"
  /\ pc = "start"
  /\ vals' \in SortOutcomes(df)
  /\ i' = window_size
  /\ pc' = "loop"
  /\ UNCHANGED <<impl, op, data, fit_distribution, use_abs, env, res, fitter_calls,
                 hist_sigma_ref, window_size, df, log, dates, sigma_stab_list,
                 mu_stab_list, snap>>
  /\ UNCHANGED spcvars

Entry(i0, w, outcome, r) ==
  [i |-> i0, positions |-> WindowPositions(i0, w), outcome |-> outcome,
   plot_data |-> IF outcome = "appended" THEN r.data_used ELSE <<>>,
   grps |-> IF outcome = "appended" THEN GroupsTaken(r.data_used, TrendMinGroups) ELSE <<>>]

\* one pass through the body of the for loop
TrendIter ==
  /\ op = "trend"
  /\ pc = "loop"
  /\ i < Len(vals)
  /\ LET window_data == WindowData(vals, i, window_size)
         current_date == CurrentDate(vals, i)
         r == get_robust_sigma_and_mu(impl, window_data, FALSE, use_abs, NoPick)
     IN /\ res' = r
        /\ IF "data_used" \notin DOMAIN r
           THEN \* plot_data = res['data_used'] raises KeyError
                /\ pc' = "raised"
                /\ log' = Append(log, Entry(i, window_size, "KeyError", r))
                /\ UNCHANGED <<i, dates, sigma_stab_list, mu_stab_list>>
           ELSE IF isnan(r.sigma_equiv)
           THEN \* continue
                /\ pc' = "loop"
                /\ i' = i + step
                /\ log' = Append(log, Entry(i, window_size, "skipped", r))
                /\ UNCHANGED <<dates, sigma_stab_list, mu_stab_list>>
           ELSE /\ pc' = "loop"
                /\ i' = i + step
                /\ log' = Append(log, Entry(i, window_size, "appended", r))
                /\ sigma_stab_list' =
                     Append(sigma_stab_list, SigmaStab(impl, r.sigma_equiv, hist_sigma_ref))
                /\ mu_stab_list' =
                     Append(mu_stab_list,
                            MuStab(impl, r.data_used, hist_sigma_ref, TrendMinGroups))
                /\ dates' = Append(dates, current_date)
  /\ UNCHANGED <<impl, op, data, fit_distribution, use_abs, env, fitter_calls,
                 hist_sigma_ref, window_size, df, vals, snap>>
  /\ UNCHANGED spcvars

\* the range is exhausted
TrendEnd ==
  /\ op = "trend"
  /\ pc = "loop"
  /\ i >= Len(vals)
  /\ pc' = "done"
  /\ UNCHANGED <<impl, op, data, fit_distribution, use_abs, env, res, fitter_calls,
                 hist_sigma_ref, window_size, df, vals, i, log, dates, sigma_stab_list,
                 mu_stab_list, snap>>
  /\ UNCHANGED spcvars

NextTrend == TrendStart \/ TrendIter \/ TrendEnd

SpecTrend == InitTrend /\ [][NextTrend]_vars

\* the snapshot and the trend together
InitStab == InitSnapshot \/ InitTrend

NextStab == PlotSnapshot \/ NextTrend

SpecStab == InitStab /\ [][NextStab]_vars

\* ------------------------------------------------------- spc_analysis
\* Dates are whole months; the dates of one characteristic are distinct.
\* outlier_cleaning (external): a filter that returns the table without the rows
\* it takes for outliers (here none, or the rows of negative value), or raises.
Cleaned(t) == [table |-> t]

outlier_cleaning(t) ==
  {Cleaned(t), Cleaned(SelectSeq(t, LAMBDA r : r.value >= 0)), Raised("Exception")}

\* try: reduced_table, ... = outlier_cleaning(reduced_table) / except: pass
AfterCleaning(t, o) == IF IsExc(o) THEN t ELSE o.table

\* mask = date > 2024-01-01; if mask.any(): reduced_table = reduced_table[mask]
AfterCutoff(t) ==
  LET kept == SelectSeq(t, LAMBDA r : r.date > Cutoff)
  IN IF kept # <<>> THEN kept ELSE t

\* reduced_table['date'].max()
MaxDate(t) ==
  IF t = <<>> THEN NoDate
  ELSE CHOOSE d \in {t[k].date : k \in 1..Len(t)} : \A k \in 1..Len(t) : t[k].date <= d

\* t['value'].values
ValuesOf(t) == [k \in 1..Len(t) |-> t[k].value]

\* reduced_table[reduced_table["date"] >= last_date - DateOffset(months)]
IntervalData(t, last, months) ==
  SelectSeq(t, LAMBDA r : last # NoDate /\ r.date >= last - months)

Max(a, b) == IF a >= b THEN a ELSE b

\* window_size=max(20, len(interval_data)//10)
TrendWindow(interval_data) == Max(MinWindow, Len(interval_data) \div WindowDivisor)

\* the reference taken from the interval's own data
PassedRef_PerInterval(ref, interval_values) ==
  get_robust_sigma_and_mu("test55", interval_values, FALSE, FALSE, NoPick).sigma_equiv

\* hist_sigma_ref=global_sigma_ref, in both calls
PassedRef(ref, interval_values) == ref

\* plot_histogramm(df, ..., hist_sigma_ref, ..., use_abs) up to the two indices
plot_histogramm(d, ref, use, pick) ==
  LET raw_data == DropNaN(ValuesOf(d))
  IN IF Len(raw_data) < MinSnapshotLen THEN NoSnap
     ELSE LET r == get_robust_sigma_and_mu("test55", raw_data, TRUE, use, pick)
          IN IF IsExc(r) THEN r
             ELSE IF "data_used" \notin DOMAIN r THEN Raised("KeyError")
             ELSE SnapshotIndices("test55", r, ref)

\* what the Fitter of one exact-mode call of test55.py can return, over its runs
FitterReturns(sample) ==
  UNION {Picks("test55", sample, TRUE, FALSE, e) : e \in UniformEnvs}

NoPoints == [sigma_stab_list |-> <<>>, mu_stab_list |-> <<>>, dates |-> <<>>]

\* the for loop of plot_timeline_analysis from index i0 on, over the sorted v
RECURSIVE TimelineFrom(_, _, _, _, _)
TimelineFrom(v, w, i0, ref, use) ==
  IF i0 >= Len(v) THEN NoPoints
  ELSE LET r == get_robust_sigma_and_mu("test55", WindowData(v, i0, w), FALSE, use, NoPick)
       IN IF "data_used" \notin DOMAIN r THEN Raised("KeyError")
          ELSE LET rest == TimelineFrom(v, w, i0 + step, ref, use)
               IN IF IsExc(rest) \/ isnan(r.sigma_equiv) THEN rest
                  ELSE [sigma_stab_list |->
                          <<SigmaStab("test55", r.sigma_equiv, ref)>> \o rest.sigma_stab_list,
                        mu_stab_list |->
                          <<MuStab("test55", r.data_used, ref, TrendMinGroups)>>
                            \o rest.mu_stab_list,
                        dates |-> <<CurrentDate(v, i0)>> \o rest.dates]

\* plot_timeline_analysis(df, ..., hist_sigma_ref, ..., window_size, use_abs) up
\* to the three lists; df_sorted is what the sort made of df
plot_timeline_analysis(df_sorted, ref, w, use) == TimelineFrom(df_sorted, w, w, ref, use)

\* one entry of the trace: what was called, for which characteristic and
\* interval, with which reference, on which values, and what came of it
Event(ev, number, months, ref, sample, out) ==
  [ev |-> ev, number |-> number, months |-> months, hist_sigma_ref |-> ref,
   sample |-> sample, out |-> out]

\* the tables: per characteristic a number of rows, the month of the first row,
\* the months between rows, and the values
Shape(n, first, gap, pat) == [n |-> n, first |-> first, gap |-> gap, pat |-> pat]

Shapes ==
  <<Shape(MinRows - 1, 1, 1, <<1, -2>>),
    Shape(MinRows, 1, 1, <<1>>),
    Shape(MinRows + 2, 1, 1, <<1, -2>>),
    Shape(MaxRows, 1, 1, <<0, 1, -2>>),
    Shape(MaxRows, 1 - (MinRows \div 2), 1, <<1, -2, 1>>),
    Shape(MaxRows, 1, 2, <<1, 0>>)>>

\* k shapes in a row, from position s of Shapes on and round again
ShapeRun(s, k) == [j \in 1..k |-> Shapes[((s + j - 2) % Len(Shapes)) + 1]]

RowsOf(number, sh) ==
  [k \in 1..sh.n |-> [date |-> sh.first + (k - 1) * sh.gap,
                      value |-> CyclicSample(sh.pat, sh.n)[k],
                      characteristic_id |-> number]]

\* two tables sorted by date, merged into one sorted by date
RECURSIVE Merge(_, _)
Merge(a, b) ==
  IF a = <<>> THEN b
  ELSE IF b = <<>> THEN a
  ELSE IF Head(a).date <= Head(b).date THEN <<Head(a)>> \o Merge(Tail(a), b)
  ELSE <<Head(b)>> \o Merge(a, Tail(b))

RECURSIVE TableOf(_, _)
TableOf(shapes, k) ==
  IF k = 0 THEN <<>> ELSE Merge(TableOf(shapes, k - 1), RowsOf(k, shapes[k]))

SpcInputs ==
  {[table |-> TableOf(ShapeRun(s, k), k), cfg |-> [j \in 1..k |-> j]] :
     s \in 1..Len(Shapes), k \in 1..MaxChars}

\* the state when the loop over the characteristics begins: the table is read,
\* sorted by date and free of missing values
InitSpc ==
  /\ op = "spc"
  /\ pc = "chars"
  /\ impl = "test55"
  /\ \E inp \in SpcInputs : table = inp.table /\ cfg = inp.cfg
  /\ char_idx = 1
  /\ reduced_table = <<>> /\ last_date = NoDate /\ global_sigma_ref = Unbound
  /\ months_idx = 0 /\ trace = <<>>
  /\ data = <<>> /\ fit_distribution = TRUE /\ use_abs = FALSE /\ env = NotRun
  /\ res = NoRes /\ fitter_calls = 0 /\ hist_sigma_ref = 0 /\ snap = NoSnap
  /\ TrendIdle

\* one pass of the outer loop up to the inner loop: the rows of the
\* characteristic, the cleaning, the cutoff, the reference sigma
SpcCharacteristic ==
  /\ op = "spc"
  /\ pc = "chars"
  /\ char_idx <= Len(cfg)
  /\ LET number == cfg[char_idx]
         rows   == SelectSeq(table, LAMBDA r : r.characteristic_id = number)
     IN IF Len(rows) < MinRows
        THEN \* continue
             /\ reduced_table' = rows
             /\ char_idx' = char_idx + 1
             /\ UNCHANGED <<pc, last_date, global_sigma_ref, months_idx, trace>>
        ELSE \E o \in outlier_cleaning(rows) :
               LET t == AfterCutoff(AfterCleaning(rows, o))
               IN \E global_sigma_res \in
                       {get_robust_sigma_and_mu("test55", ValuesOf(t), TRUE, FALSE, pick) :
                          pick \in FitterReturns(ValuesOf(t))} :
                       /\ reduced_table' = t
                       /\ last_date' = MaxDate(t)
                       /\ IF IsExc(global_sigma_res)
                          THEN /\ pc' = "raised"
                               /\ trace' = Append(trace, Event("raised", number, 0, Unbound,
                                                               ValuesOf(t), global_sigma_res))
                               /\ UNCHANGED <<char_idx, global_sigma_ref, months_idx>>
                          ELSE /\ pc' = "intervals"
                               /\ global_sigma_ref' = global_sigma_res.sigma_equiv
                               /\ months_idx' = 1
                               /\ trace' = Append(trace,
                                                  Event("reference", number, 0,
                                                        global_sigma_res.sigma_equiv,
                                                        ValuesOf(t), NoSnap))
                               /\ UNCHANGED char_idx
  /\ UNCHANGED <<table, cfg>>
  /\ UNCHANGED calleevars

\* one pass of the inner loop: the rows of the interval, the snapshot, the trend
SpcInterval ==
  /\ op = "spc"
  /\ pc = "intervals"
  /\ months_idx <= Len(time_intervals)
  /\ LET months        == time_intervals[months_idx]
         number        == cfg[char_idx]
         interval_data == IntervalData(reduced_table, last_date, months)
         ref           == PassedRef(global_sigma_ref, ValuesOf(interval_data))
         skip          == Event("skip", number, months, Unbound, ValuesOf(interval_data), NoSnap)
     IN IF Len(interval_data) < MinRows
        THEN \* continue
             /\ months_idx' = months_idx + 1
             /\ trace' = Append(trace, skip)
             /\ pc' = pc
        ELSE \E df_sorted \in SortOutcomes(interval_data) :
               \E h \in {plot_histogramm(interval_data, ref, FALSE, pick) :
                            pick \in FitterReturns(ValuesOf(interval_data))} :
                 LET tl == plot_timeline_analysis(df_sorted, ref, TrendWindow(interval_data),
                                                  FALSE)
                     hev == Event("snapshot", number, months, ref, ValuesOf(interval_data), h)
                     tev == Event("trend", number, months, ref, ValuesOf(interval_data), tl)
                 IN IF IsExc(h)
                    THEN /\ pc' = "raised"
                         /\ trace' = Append(trace, hev)
                         /\ months_idx' = months_idx
                    ELSE /\ pc' = IF IsExc(tl) THEN "raised" ELSE pc
                         /\ trace' = trace \o <<hev, tev>>
                         /\ months_idx' = IF IsExc(tl) THEN months_idx ELSE months_idx + 1
  /\ UNCHANGED <<table, cfg, char_idx, reduced_table, last_date, global_sigma_ref>>
  /\ UNCHANGED calleevars

\* the inner loop is exhausted: on to the next characteristic
SpcIntervalsEnd ==
  /\ op = "spc"
  /\ pc = "intervals"
  /\ months_idx > Len(time_intervals)
  /\ char_idx' = char_idx + 1
  /\ pc' = "chars"
  /\ UNCHANGED <<table, cfg, reduced_table, last_date, global_sigma_ref, months_idx, trace>>
  /\ UNCHANGED calleevars

\* the outer loop is exhausted: return True
SpcReturn ==
  /\ op = "spc"
  /\ pc = "chars"
  /\ char_idx > Len(cfg)
  /\ pc' = "done"
  /\ UNCHANGED spcvars
  /\ UNCHANGED calleevars

NextSpc == SpcCharacteristic \/ SpcInterval \/ SpcIntervalsEnd \/ SpcReturn

SpecSpc == InitSpc /\ [][NextSpc]_vars

Init == InitEstimate \/ InitSnapshot \/ InitTrend \/ InitSpc

Next ==
  \/ CallEstimate \/ PlotSnapshot \/ TrendStart \/ TrendIter \/ TrendEnd
  \/ SpcCharacteristic \/ SpcInterval \/ SpcIntervalsEnd \/ SpcReturn

Spec == Init /\ [][Next]_vars

\* ------------------------------------------------------------- claims
Called == op = "estimate" /\ pc # "start"

EstimateKeys == {"sigma_equiv", "median", "lsl", "usl"}

\* two results carry the same sigma_equiv, median, lsl and usl
SameEstimate(a, b) ==
  \A k \in EstimateKeys :
    /\ (k \in DOMAIN a) <=> (k \in DOMAIN b)
    /\ (k \in DOMAIN a) => a[k] = b[k]

FastEstimate == get_robust_sigma_and_mu(impl, data, FALSE, use_abs, NoPick)

\* C3: for every sample and in both modes, a sample that is empty once its
\* missing values are dropped gives, without an exception, a complete estimate:
\* sigma_equiv, median, lsl and usl all NaN and the source "empirical".
C3_EmptySampleUndefinedEstimate ==
  (Called /\ DropNaN(data) = <<>>) =>
    /\ ~IsExc(res)
    /\ EstimateKeys \cup {"dist_name"} \subseteq DOMAIN res
    /\ \A k \in EstimateKeys : isnan(res[k])
    /\ res.dist_name = "empirical"

\* C4: with at most MinFitLen values left after filtering, the exact mode builds
\* no Fitter, raises nothing and returns the numbers of the fast mode.
C4_SmallSampleFallsBack ==
  (Called /\ fit_distribution /\ Len(DropNaN(data)) <= MinFitLen) =>
    /\ fitter_calls = 0
    /\ ~IsExc(res)
    /\ SameEstimate(res, FastEstimate)

\* C5: when the Fitter ran and no family was fitted (each failed or timed out),
\* the exact mode does not raise and returns the numbers of the fast mode.
C5_NoFittableFallsBack ==
  (Called /\ fitter_calls > 0 /\ FittedNames(env) = {}) =>
    /\ ~IsExc(res)
    /\ SameEstimate(res, FastEstimate)

C10_BoundsOrdered ==
  (op = "estimate" /\ pc = "done" /\ DropNaN(data) # <<>>) =>
    /\ EstimateKeys \subseteq DOMAIN res
    /\ \A k \in EstimateKeys : ~isnan(res[k])
    /\ res.lsl <= res.median /\ res.median <= res.usl
    /\ res.sigma_equiv * SigmaWidth = res.usl - res.lsl
    /\ res.sigma_equiv >= 0

\* an empirical estimate whose three numbers differ
C10_Witness ==
  /\ op = "estimate" /\ pc = "done" /\ fitter_calls = 0
  /\ "median" \in DOMAIN res
  /\ ~isnan(res.sigma_equiv)
  /\ res.lsl < res.median /\ res.median < res.usl

\* ---- the trend
Appended == SelectSeq(log, LAMBDA e : e.outcome = "appended")

\* number of indices in range(window_size, len(vals), step)
NumWindows ==
  IF Len(vals) <= window_size THEN 0 ELSE (Len(vals) - 1 - window_size) \div step + 1

IndexOf(k) == window_size + (k - 1) * step

\* C1: the k-th iteration of the trend is at i = window_size + (k-1)*step < n;
\* its window is exactly the window_size positions i-window_size .. i-1, all
\* before i; every point appended carries the date at position i; and when the
\* loop is done no index window_size + j*step < n was left out.
C1_RollingWindowIndices ==
  (op = "trend" /\ pc # "start") =>
    /\ \A k \in 1..Len(log) :
         /\ log[k].i = IndexOf(k)
         /\ log[k].i < Len(vals)
         /\ log[k].positions =
              {p \in 0..(Len(vals) - 1) : log[k].i - window_size <= p /\ p < log[k].i}
         /\ Cardinality(log[k].positions) = window_size
    /\ Len(dates) = Len(Appended)
    /\ \A j \in 1..Len(dates) : dates[j] = vals[Appended[j].i + 1].date
    /\ pc = "done" => Len(log) = NumWindows

\* a finished trend over a frame the sort reordered, with three windows
C1_Witness ==
  /\ op = "trend" /\ pc = "done" /\ vals # df
  /\ Len(log) >= 3 /\ Len(dates) >= 3
  /\ window_size < log[1].i + step

WindowHasValue(k) ==
  \E p \in (IndexOf(k) - window_size)..(IndexOf(k) - 1) : ~isnan(vals[p + 1].value)

\* C2: a trend ends without an exception; every window was visited; the windows
\* without a defined value, and only those, were skipped; the number of points
\* is the number of windows with at least one defined value.
C2_EmptyWindowsSkipped ==
  (op = "trend" /\ pc \in {"done", "raised"}) =>
    /\ pc = "done"
    /\ Len(log) = NumWindows
    /\ \A k \in 1..Len(log) :
         log[k].outcome = IF WindowHasValue(k) THEN "appended" ELSE "skipped"
    /\ Len(dates) = Cardinality({k \in 1..NumWindows : WindowHasValue(k)})
    /\ Len(sigma_stab_list) = Len(dates) /\ Len(mu_stab_list) = Len(dates)

\* ---- the indices
SnapshotDone == op = "snapshot" /\ pc = "done"

UndefinedReference == hist_sigma_ref = 0 \/ isnan(hist_sigma_ref)

RECURSIVE DevSquares(_, _, _)
DevSquares(meds, k, total) ==
  IF meds = <<>> THEN 0
  ELSE (k * Head(meds) - total) * (k * Head(meds) - total) + DevSquares(Tail(meds), k, total)

\* x is the Bessel-corrected standard deviation of the medians of the rows of
\* plot_data divided by ref, in floating point: NaN if a median or ref is NaN,
\* inf (nan for 0/0) if ref is 0, else the quotient whose numerator squared,
\* times k^2 * (k-1), is the sum of (k*m - sum(m))^2
IsBesselStdOverRef(x, plot_data, ref) ==
  LET k    == Len(plot_data) \div group_size
      meds == Medians([j \in 1..k |-> SubSeq(plot_data, (j - 1) * group_size + 1, j * group_size)])
      bad  == \E j \in 1..k : isnan(meds[j])
      dev  == DevSquares(meds, k, SumSeq(meds))
  IN IF bad \/ isnan(ref) THEN x = NanIdx
     ELSE IF ref = 0 THEN x = (IF dev = 0 THEN NanIdx ELSE InfIdx)
     ELSE /\ x.kind = "quot" /\ x.den = ref
          /\ ~x.num.isnan
          /\ x.num.num * k * k * (k - 1) = x.num.den * dev

MuStabAsStated(x, plot_data, ref, threshold) ==
  IF Len(plot_data) \div group_size <= threshold THEN x = ZeroIdx
  ELSE IsBesselStdOverRef(x, plot_data, ref)

ZeroGuarded == impl = "test55" /\ hist_sigma_ref = 0

UsedSample(raw) ==
  LET d == DropNaN(raw)
  IN [k \in 1..Len(d) |-> IF use_abs /\ d[k] < 0 THEN -d[k] ELSE d[k]]

\* grps is the chunking of plot_data: floor(n/g) rows, row j the elements at
\* (0-based) positions j*g .. j*g+g-1, the rest in no row
IsChunking(grps, plot_data) ==
  /\ Len(grps) = Len(plot_data) \div group_size
  /\ \A j \in 1..Len(grps) :
       /\ Len(grps[j]) = group_size
       /\ \A c \in 1..group_size : grps[j][c] = plot_data[(j - 1) * group_size + c]

\* C9: wherever subgroups are formed (the snapshot of either script with more
\* than one complete subgroup, a trend point of test55.py with more than two),
\* they are the consecutive chunks of group_size elements of the sample the
\* estimate was made from: the defined values of the input (of the window), in
\* order, in absolute value if asked.
C9_SubgroupsAreConsecutiveChunks ==
  /\ SnapshotDone =>
       /\ snap.plot_data = UsedSample(data)
       /\ snap.num_groups > SnapshotMinGroups => IsChunking(snap.grps, snap.plot_data)
  /\ (op = "trend" /\ impl = "test55") =>
       \A k \in 1..Len(log) :
         log[k].outcome = "appended" =>
           /\ log[k].plot_data =
                UsedSample([q \in 1..window_size |-> vals[log[k].i - window_size + q].value])
           /\ NumGroups(log[k].plot_data) > TrendMinGroups =>
                IsChunking(log[k].grps, log[k].plot_data)

\* a trend point of test55.py: a window with a missing value and negative
\* values, absolute values asked, three subgroups formed
C9_Witness ==
  /\ op = "trend" /\ impl = "test55" /\ use_abs
  /\ \E k \in 1..Len(log) :
       /\ log[k].outcome = "appended"
       /\ Len(log[k].grps) = TrendMinGroups + 1
       /\ Len(log[k].plot_data) < window_size
       /\ \E p \in log[k].positions : vals[p + 1].value # NaN /\ vals[p + 1].value < 0

\* ---- the absolute-value transform
BoundKeys == {"lsl", "median", "usl"}

\* C11: an estimate returned with use_abs_values set reports as data_used the
\* absolute values of the defined elements of the sample, in their order and
\* nothing else, and its lsl, median and usl (undefined for a sample without
\* values) are >= 0.
C11_AbsoluteValuesOfDefinedElements ==
  (op = "estimate" /\ pc = "done" /\ use_abs) =>
    /\ "data_used" \in DOMAIN res
    /\ res.data_used = UsedSample(data)
    /\ \A k \in BoundKeys : k \in DOMAIN res => (isnan(res[k]) \/ res[k] >= 0)

\* ---- the last measurement
\* the series without its last row
Earlier == SubSeq(vals, 1, Len(vals) - 1)

\* the estimate of the window that ends before position i0, taken from Earlier
EarlierEstimate(i0) ==
  get_robust_sigma_and_mu(impl, [q \in 1..window_size |-> Earlier[i0 - window_size + q].value],
                          FALSE, use_abs, NoPick)

\* C13: in a trend over n rows no window holds position n-1, so every point of
\* the trend is what the rows before the last one give; and when
\* n <= window_size no window is evaluated and the three lists stay empty.
C13_LastMeasurementNeverInWindow ==
  (op = "trend" /\ pc # "start") =>
    /\ \A k \in 1..Len(log) : log[k].positions \subseteq 0..(Len(vals) - 2)
    /\ Len(sigma_stab_list) = Len(Appended) /\ Len(mu_stab_list) = Len(Appended)
    /\ \A j \in 1..Len(Appended) :
         /\ sigma_stab_list[j] =
              SigmaStab(impl, EarlierEstimate(Appended[j].i).sigma_equiv, hist_sigma_ref)
         /\ mu_stab_list[j] =
              MuStab(impl, EarlierEstimate(Appended[j].i).data_used, hist_sigma_ref,
                     TrendMinGroups)
    /\ Len(vals) <= window_size =>
         log = <<>> /\ dates = <<>> /\ sigma_stab_list = <<>> /\ mu_stab_list = <<>>

\* a finished trend whose last point is dated by the last row, n-1, and whose
\* window stops at n-2; the last row holds a value that is in no window
C13_Witness ==
  /\ op = "trend" /\ pc = "done" /\ Len(vals) > window_size
  /\ Len(dates) >= 2 /\ Len(log) = Len(dates)
  /\ log[Len(log)].i = Len(vals) - 1
  /\ dates[Len(dates)] = vals[Len(vals)].date
  /\ ~isnan(vals[Len(vals)].value)

\* ---- the reference sigma of spc_analysis
RefEvents(number) ==
  {p \in 1..Len(trace) : trace[p].ev = "reference" /\ trace[p].number = number}

IntervalEvents == {p \in 1..Len(trace) : trace[p].ev \in {"skip", "snapshot", "trend"}}

PlotEvents == {p \in 1..Len(trace) : trace[p].ev \in {"snapshot", "trend"}}

\* the denominators of the indices a snapshot or a trend computed
Denominator(x) == IF x.kind = "quot" THEN {x.den} ELSE {}

DenominatorsOf(out) ==
  IF IsExc(out) THEN {}
  ELSE IF "dates" \in DOMAIN out
  THEN UNION {Denominator(out.sigma_stab_list[j]) \cup Denominator(out.mu_stab_list[j]) :
                j \in 1..Len(out.dates)}
  ELSE Denominator(out.sigma_stab) \cup Denominator(out.mu_stab)

\* sigma_equiv of an exact-mode estimate (test55.py, signed values) of `history`,
\* for some run of the Fitter that returns
ExactSigmas(history) ==
  {get_robust_sigma_and_mu("test55", history, TRUE, FALSE, pick).sigma_equiv :
     pick \in IF InvokesFitter("test55", history, TRUE, FALSE) THEN Families ELSE {NoPick}}

\* a is b from some position on
IsSuffix(a, b) == Len(a) <= Len(b) /\ a = SubSeq(b, Len(b) - Len(a) + 1, Len(b))

====
